---- MODULE Spec2Model ----
(***************************************************************************)
(* A model of src/mainwindow.cc of CP Editor: the three test slots, their  *)
(* persistence next to the open source file, the dirty-state check with    *)
(* the save confirmation, the run-completion callback and the tolerant     *)
(* output comparator.                                                      *)
(*                                                                         *)
(* A text (QString, QByteArray, the contents of a widget or of a file) is  *)
(* a sequence of characters; a character is one of the strings of Char.    *)
(***************************************************************************)
EXTENDS Naturals, Sequences, FiniteSets, TLC

\* ------------------------------------------------------------------ bounds

\* The number of characters the user types into the editor in one behaviour.
MaxEdit == 2
\* The longest text handed to the comparator as `output` / as `expected`.
MaxCmpA == 3
MaxCmpB == 2

\* ------------------------------------------------------------ program data

\* The fixed number of test slots (for (int i = 0; i < 3; ++i)).
NumSlots == 3
Slots == 0 .. (NumSlots - 1)

Char == {"a", "b", "SP", "LF", "CR", "TAB", "NUL"}
\* QChar::isSpace for the characters of Char.
IsSpace(c) == c \in {"SP", "LF", "CR", "TAB"}

Empty == << >>

\* ------------------------------------------------------------ text helpers

\* QString::isEmpty
IsEmpty(s) == Len(s) = 0

RECURSIVE TrimLeft(_)
TrimLeft(s) ==
  IF s # Empty /\ IsSpace(Head(s)) THEN TrimLeft(Tail(s)) ELSE s

RECURSIVE TrimRight(_)
TrimRight(s) ==
  IF s # Empty /\ IsSpace(s[Len(s)]) THEN TrimRight(SubSeq(s, 1, Len(s) - 1))
  ELSE s

\* QString::trimmed: whitespace removed from both ends.
Trimmed(s) == TrimRight(TrimLeft(s))

\* QString::remove('\r')
RemoveCR(s) == SelectSeq(s, LAMBDA c : c # "CR")

\* QString::split(sep): the pieces between the separators, empty pieces kept;
\* a text without the separator (the empty text too) is one piece.
RECURSIVE Split(_, _)
Split(s, sep) ==
  IF \A k \in 1 .. Len(s) : s[k] # sep THEN << s >>
  ELSE LET k == CHOOSE n \in 1 .. Len(s) :
                   s[n] = sep /\ \A m \in 1 .. (n - 1) : s[m] # sep
       IN  << SubSeq(s, 1, k - 1) >> \o Split(SubSeq(s, k + 1, Len(s)), sep)

\* toStdString().c_str() handed to QIODevice::write(const char *): the bytes
\* up to the first NUL are written.
RECURSIVE CStr(_)
CStr(s) ==
  IF s = Empty \/ Head(s) = "NUL" THEN Empty ELSE << Head(s) >> \o CStr(Tail(s))

\* ------------------------------------------------------------- comparator

\* The inner loop of isVerdictPass over the words of one line, from index j.
RECURSIVE WordsPass(_, _, _)
WordsPass(a_words, b_words, j) ==
  IF ~(j <= Len(a_words) \/ j <= Len(b_words)) THEN TRUE
  ELSE IF j > Len(a_words)
       THEN IsEmpty(Trimmed(b_words[j])) /\ WordsPass(a_words, b_words, j + 1)
  ELSE IF j > Len(b_words)
       THEN IsEmpty(Trimmed(a_words[j])) /\ WordsPass(a_words, b_words, j + 1)
  ELSE a_words[j] = b_words[j] /\ WordsPass(a_words, b_words, j + 1)

\* The outer loop of isVerdictPass over the lines, from index i.
RECURSIVE LinesPass(_, _, _)
LinesPass(a_lines, b_lines, i) ==
  IF ~(i <= Len(a_lines) \/ i <= Len(b_lines)) THEN TRUE
  ELSE IF i > Len(a_lines)
       THEN IsEmpty(Trimmed(b_lines[i])) /\ LinesPass(a_lines, b_lines, i + 1)
  ELSE IF i > Len(b_lines)
       THEN IsEmpty(Trimmed(a_lines[i])) /\ LinesPass(a_lines, b_lines, i + 1)
  ELSE /\ WordsPass(Split(a_lines[i], "SP"), Split(b_lines[i], "SP"), 1)
       /\ LinesPass(a_lines, b_lines, i + 1)

\* A comparator that forgets to strip the carriage returns of `expected`.
IsVerdictPassKeepsCR(out, exp) ==
  LinesPass(Split(RemoveCR(out), "LF"), Split(exp, "LF"), 1)

\* MainWindow::isVerdictPass(output, expected)
IsVerdictPass(out, exp) ==
  LinesPass(Split(RemoveCR(out), "LF"), Split(RemoveCR(exp), "LF"), 1)

\* ------------------------------------------------------------ environment

\* openFile == nullptr
NoFile == "nullptr"
\* The file names a file dialog or the command line can give: a source file
\* in a writable directory, and one in a directory without write permission,
\* where open(ReadWrite) fails and no file can be created.
Paths == {"p.cpp", "ro/q.cpp"}
Openable(path) == path = "p.cpp"
\* QFileInfo::dir().absolutePath() + "/" + completeBaseName()
BaseName(path) == IF path = "p.cpp" THEN "p" ELSE "ro/q"

\* The contents of a file that does not exist.
Missing == << "MISSING" >>

Ext == {"in", "ans"}
\* testFile + QString::number(i + 1) + ".in" / ".ans"
TestFileName(f, i, ext) == << BaseName(f), i + 1, ext >>
\* The test files the model keeps the contents of: those beside p.cpp.
TestNames == {"p"} \X (1 .. NumSlots) \X Ext
\* The read-only directory holds one test file, which cannot be opened.
RoStale == << "ro/q", 1, "in" >>

\* QFile::exists
FileExists(name, td) ==
  IF name \in DOMAIN td THEN td[name] # Missing ELSE name = RoStale
\* QFile::open(ReadOnly) / open(WriteOnly) followed by isOpen()
CanRead(name) == name[1] = "p"
CanWrite(name) == name[1] = "p"

\* The configured template file and its contents.
TemplateFile == "tpl"
TemplateText == << "a" >>
TemplateExists(path) == path = TemplateFile

\* ------------------------------------------------------------------ state

VARIABLES
  openFile,        \* NoFile, or the file name of the QFile the window holds
  isOpen,          \* openFile->isOpen()
  shouldSaveTests, \* the persistence flag
  templatePath,    \* "" when no template is configured
  editor,          \* editor->toPlainText()
  nTyped,          \* characters typed so far (bounded by MaxEdit)
  input,           \* input[i]->toPlainText()
  expected,        \* *expected[i]
  output,          \* output[i]->toPlainText()
  verdict,         \* the verdict shown for slot i
  srcDisk,         \* the contents of the source files on disk
  testDisk,        \* the contents of the test files beside p.cpp
  pending,         \* the slots the runner still owes a callback in this run
  late,            \* the slots an earlier run, still in flight at a later run
                   \* start, owes a callback
  delivered,       \* slot -> the Stdout its callback of this run carried
  log,             \* what the last handler reported to Log::MessageLogger
  call,            \* the last handler called, with its arguments
  ret,             \* what it returned
  saved,           \* the input and expected texts, and the file, at the last saveTests
  cmpA, cmpB,      \* the comparator's arguments (specification SpecCmp)
  cmpRes           \* and its last result

mvars == << openFile, isOpen, shouldSaveTests, templatePath, editor, nTyped,
            input, expected, output, verdict, srcDisk, testDisk, pending, late,
            delivered, log, call, ret, saved >>
cvars == << cmpA, cmpB, cmpRes >>
vars == << mvars, cvars >>

Verdicts == {"UNKNOWN", "ACCEPTED", "WRONG_ANSWER"}
NoSlots == [i \in Slots |-> Empty]
AllUnknown == [i \in Slots |-> "UNKNOWN"]
\* No callback has arrived for a slot.
NotYet == << "NOT_YET" >>
NoneDelivered == [i \in Slots |-> NotYet]
\* No run is being followed: none was started, or a handler other than the
\* callback has changed the slots since.
NoRun == [i \in Slots |-> << "NO_RUN" >>]
NeverSaved == << >>

BoolStr(b) == IF b THEN "true" ELSE "false"

\* ------------------------------------------------------- test persistence

\* The early return of loadTests and saveTests, without the persistence flag.
TestsSkippedIgnoresFlag(f, sst) == f = NoFile

\* if (openFile == nullptr || !shouldSaveTests) return;
TestsSkipped(f, sst) == f = NoFile \/ ~sst

\* A load that clears the text of a slot whose file is missing.
LoadFieldClearsMissing(cur, name, td) ==
  IF FileExists(name, td) /\ CanRead(name) THEN td[name] ELSE Empty

\* loadTests, one file: when it exists and opens, its contents replace the
\* slot's text, and otherwise the text stays.  (No file of the model holds a
\* NUL, so readAll() converts to the same text.)
LoadField(cur, name, td) ==
  IF FileExists(name, td) /\ CanRead(name) THEN td[name] ELSE cur

LoadTestsInput(inp, f, sst, td) ==
  IF TestsSkipped(f, sst) THEN inp
  ELSE [i \in Slots |-> LoadField(inp[i], TestFileName(f, i, "in"), td)]

LoadTestsExpected(exp, f, sst, td) ==
  IF TestsSkipped(f, sst) THEN exp
  ELSE [i \in Slots |-> LoadField(exp[i], TestFileName(f, i, "ans"), td)]

\* What loadTests reports: one message for each file that exists.
LoadTestsLog(f, sst, td) ==
  IF TestsSkipped(f, sst) THEN {}
  ELSE { << IF CanRead(TestFileName(f, i, e)) THEN "info" ELSE "error",
            "Tests", "load", TestFileName(f, i, e) >> :
         << i, e >> \in { x \in Slots \X Ext :
                            FileExists(TestFileName(f, x[1], x[2]), td) } }

\* saveTests, one file: a text that is not empty after trimming is written
\* as a C string over the file, when the file opens for writing.
SaveField(text, name, td) ==
  IF ~IsEmpty(Trimmed(text)) /\ CanWrite(name) /\ name \in DOMAIN td
  THEN [td EXCEPT ![name] = CStr(text)]
  ELSE td

\* The loop of saveTests from slot i on.
RECURSIVE SaveSlots(_, _, _, _, _)
SaveSlots(td, inp, exp, f, i) ==
  IF i >= NumSlots THEN td
  ELSE SaveSlots(SaveField(exp[i], TestFileName(f, i, "ans"),
                           SaveField(inp[i], TestFileName(f, i, "in"), td)),
                 inp, exp, f, i + 1)

SaveTestsDisk(td, inp, exp, f, sst) ==
  IF TestsSkipped(f, sst) THEN td ELSE SaveSlots(td, inp, exp, f, 0)

\* What saveTests reports: one message for each text it tries to write.
SaveTestsLog(inp, exp, f, sst) ==
  IF TestsSkipped(f, sst) THEN {}
  ELSE { << IF CanWrite(TestFileName(f, i, "in")) THEN "info" ELSE "error",
            "Tests", "save", TestFileName(f, i, "in") >> :
         i \in { x \in Slots : ~IsEmpty(Trimmed(inp[x])) } }
       \cup
       { << IF CanWrite(TestFileName(f, i, "ans")) THEN "info" ELSE "error",
            "Tests", "save", TestFileName(f, i, "ans") >> :
         i \in { x \in Slots : ~IsEmpty(Trimmed(exp[x])) } }

\* The slots as saveTests saw them, when it did not return early.
SaveTestsSnapshot(old, inp, exp, f, sst) ==
  IF TestsSkipped(f, sst) THEN old ELSE << inp, exp, f >>

\* ------------------------------------------------------------ dirty state

\* MainWindow::isTextChanged, of a window holding file f (open: o) and text ed,
\* with the source files sd on disk.
TextChanged(f, o, tp, ed, sd) ==
  IF f = NoFile
  THEN IF tp # "" /\ TemplateExists(tp) THEN ed # TemplateText
       ELSE ~IsEmpty(ed)
  ELSE IF o THEN sd[f] # ed
  ELSE TRUE

IsTextChanged == TextChanged(openFile, isOpen, templatePath, editor, srcDisk)

\* ---------------------------------------------------------------- saveFile
\* saveFile(force, head) of a window holding file f (open: o); fn is the name
\* the file dialog returns ("" when it is dismissed), asked only when f is
\* nullptr and force is set.  A write to an open file succeeds.

SaveFileAsks(f, force) == f = NoFile /\ force

\* The value saveFile returns.
SaveFileRet(f, force, fn) ==
  IF f = NoFile THEN force /\ fn # "" ELSE TRUE

\* openFile and openFile->isOpen() when saveFile returns.
SaveFileFile(f, force, fn) ==
  IF SaveFileAsks(f, force) /\ fn # "" THEN fn ELSE f

SaveFileOpen(f, o, force, fn) ==
  IF SaveFileAsks(f, force) /\ fn # "" THEN Openable(fn) ELSE o

\* The source files when saveFile returns: resize(0), then the editor's text
\* written as a C string, when the file is open.
SaveFileSrcDisk(f, o, force, fn, ed, sd) ==
  LET nf == SaveFileFile(f, force, fn)
  IN  IF nf # NoFile /\ SaveFileOpen(f, o, force, fn)
      THEN [sd EXCEPT ![nf] = CStr(ed)]
      ELSE sd

\* saveFile calls saveTests on every path that returns true.
SaveFileTestDisk(f, force, fn, td, inp, exp, sst) ==
  IF SaveFileRet(f, force, fn)
  THEN SaveTestsDisk(td, inp, exp, SaveFileFile(f, force, fn), sst)
  ELSE td

SaveFileSnapshot(old, f, force, fn, inp, exp, sst) ==
  IF SaveFileRet(f, force, fn)
  THEN SaveTestsSnapshot(old, inp, exp, SaveFileFile(f, force, fn), sst)
  ELSE old

SaveFileLog(f, o, force, fn, inp, exp, sst) ==
  IF ~SaveFileRet(f, force, fn) THEN {}
  ELSE LET nf == SaveFileFile(f, force, fn)
       IN  { IF f = NoFile /\ ~Openable(nf)
             THEN << "error", "Cannot Save file", nf >>
             ELSE << "info", "Saved", nf >> }
           \cup SaveTestsLog(inp, exp, nf, sst)

\* The names a file dialog can return.
DialogNames == Paths \cup {""}
\* The dialog is shown only when saveFile asks for a name.
DialogAnswer(f, force, fn) ==
  fn \in DialogNames /\ (~SaveFileAsks(f, force) => fn = "")

\* The part of the state saveFile(force, head) changes, as one step.
SaveFileStep(force, fn) ==
  /\ openFile' = SaveFileFile(openFile, force, fn)
  /\ isOpen' = SaveFileOpen(openFile, isOpen, force, fn)
  /\ srcDisk' = SaveFileSrcDisk(openFile, isOpen, force, fn, editor, srcDisk)
  /\ testDisk' = SaveFileTestDisk(openFile, force, fn, testDisk, input,
                                  expected, shouldSaveTests)
  /\ saved' = SaveFileSnapshot(saved, openFile, force, fn, input, expected,
                               shouldSaveTests)
  /\ log' = SaveFileLog(openFile, isOpen, force, fn, input, expected,
                        shouldSaveTests)

\* ------------------------------------------------------------------ slots

\* clearTests(outputOnly)
ClearedInput(inp, outputOnly) == IF outputOnly THEN inp ELSE NoSlots
ClearedExpected(exp, outputOnly) == IF outputOnly THEN exp ELSE NoSlots

\* isRun[i] of on_run_clicked and on_runOnly_clicked
IsRun(inp) == { i \in Slots : ~IsEmpty(Trimmed(inp[i])) }

\* A callback that compares even when a text is empty.
VerdictAfterNoSkip(old, out, exp) ==
  IF IsVerdictPass(out, exp) THEN "ACCEPTED" ELSE "WRONG_ANSWER"

\* executionFinished: the verdict of the slot after the callback.
VerdictAfter(old, out, exp) ==
  IF IsEmpty(out) \/ IsEmpty(exp) THEN old
  ELSE IF IsVerdictPass(out, exp) THEN "ACCEPTED"
  ELSE "WRONG_ANSWER"

\* A callback that clears the other slots' outputs.
OutputAfterClearsOthers(outp, id, out) ==
  [i \in Slots |-> IF i = id THEN out ELSE Empty]

\* executionFinished: output[id]->clear(); output[id]->setPlainText(Stdout).
OutputAfter(outp, id, out) == [outp EXCEPT ![id] = out]

\* A confirmation that lets the window close on Cancel.
CloseConfirmedOnCancel(changed, res, saveRet) ==
  IF ~changed THEN TRUE
  ELSE IF res = "Save" THEN saveRet
  ELSE TRUE

\* closeChangedConfirm: the value returned, for the button res of the
\* message box and the result saveRet of saveFile.
CloseConfirmed(changed, res, saveRet) ==
  IF ~changed THEN TRUE
  ELSE IF res = "Save" THEN saveRet
  ELSE IF res = "Discard" THEN TRUE
  ELSE FALSE

\* ------------------------------------------------------------ construction

\* The disks a window can be constructed on.
InitSrcDisks ==
  { [f \in Paths |-> IF f = "p.cpp" THEN c ELSE Missing] :
    c \in {Missing, << "a" >>} }
NoTestFiles == [n \in TestNames |-> Missing]
InitTestDisks ==
  { NoTestFiles,
    [NoTestFiles EXCEPT ![<< "p", 1, "in" >>] = << "b" >>,
                        ![<< "p", 3, "ans" >>] = << "a" >>] }

\* The constructor: openFile after open(ReadWrite | Text) of filePath.
CtorFile(filePath) ==
  IF filePath # "" /\ Openable(filePath) THEN filePath ELSE NoFile
\* open(ReadWrite) creates a file that does not exist.
CtorSrcDisk(filePath, sd) ==
  IF CtorFile(filePath) # NoFile /\ sd[filePath] = Missing
  THEN [sd EXCEPT ![filePath] = Empty]
  ELSE sd
CtorEditor(filePath, sd) ==
  IF CtorFile(filePath) # NoFile THEN CtorSrcDisk(filePath, sd)[filePath]
  ELSE Empty

\* The window MainWindow(index, filePath) constructs on the disks sd and td,
\* with the persistence flag sst.
MainInitFor(filePath, sd, td, sst) ==
  /\ openFile = CtorFile(filePath)
  /\ isOpen = (CtorFile(filePath) # NoFile)
  /\ shouldSaveTests = sst
  /\ templatePath = ""
  /\ editor = CtorEditor(filePath, sd)
  /\ nTyped = 0
  /\ input = LoadTestsInput(NoSlots, CtorFile(filePath), sst, td)
  /\ expected = LoadTestsExpected(NoSlots, CtorFile(filePath), sst, td)
  /\ output = NoSlots
  /\ verdict = AllUnknown
  /\ srcDisk = CtorSrcDisk(filePath, sd)
  /\ testDisk = td
  /\ pending = {}
  /\ late = {}
  /\ delivered = NoRun
  /\ log = LoadTestsLog(CtorFile(filePath), sst, td)
  /\ call = [op |-> "MainWindow"]
  /\ ret = "void"
  /\ saved = NeverSaved

MainInit ==
  \E filePath \in DialogNames, sd \in InitSrcDisks, td \in InitTestDisks,
     sst \in BOOLEAN :
    MainInitFor(filePath, sd, td, sst)

\* No comparison has been made.
NoResult == [op |-> "none", pass |-> FALSE, before |-> FALSE]

CmpIdle == cmpA = Empty /\ cmpB = Empty /\ cmpRes = NoResult

Init == MainInit /\ CmpIdle

\* ---------------------------------------------------------------- handlers

\* setSaveTests(b)
SetSaveTests(b) ==
  /\ shouldSaveTests' = b
  /\ call' = [op |-> "setSaveTests"]
  /\ ret' = "void"
  /\ log' = {}
  /\ UNCHANGED << openFile, isOpen, templatePath, editor, nTyped, input,
                  expected, output, verdict, srcDisk, testDisk, pending, late,
                  delivered, saved, cvars >>

\* setTemplatePath(s)
SetTemplatePath(s) ==
  /\ templatePath' = s
  /\ call' = [op |-> "setTemplatePath"]
  /\ ret' = "void"
  /\ log' = {}
  /\ UNCHANGED << openFile, isOpen, shouldSaveTests, editor, nTyped, input,
                  expected, output, verdict, srcDisk, testDisk, pending, late,
                  delivered, saved, cvars >>

\* The user appends a character to the editor; the textChanged signal runs
\* on_textChanged_triggered, which evaluates isTextChanged and drops it.
\* afterSave: the character follows a saveFile that returned true.
TypeChar(c) ==
  /\ nTyped < MaxEdit
  /\ nTyped' = nTyped + 1
  /\ editor' = Append(editor, c)
  /\ call' = [op |-> "type",
              afterSave |-> ("saveFile" \in DOMAIN call /\ call.saveFile = "true")]
  /\ ret' = "void"
  /\ log' = {}
  /\ UNCHANGED << openFile, isOpen, shouldSaveTests, templatePath, input,
                  expected, output, verdict, srcDisk, testDisk, pending, late,
                  delivered, saved, cvars >>

\* clearTests(outputOnly); a run it interrupts is no longer followed.
ClearTests(outputOnly) ==
  /\ input' = ClearedInput(input, outputOnly)
  /\ expected' = ClearedExpected(expected, outputOnly)
  /\ output' = NoSlots
  /\ verdict' = AllUnknown
  /\ delivered' = NoRun
  /\ call' = [op |-> "clearTests", outputOnly |-> outputOnly]
  /\ ret' = "void"
  /\ log' = {}
  /\ UNCHANGED << openFile, isOpen, shouldSaveTests, templatePath, editor,
                  nTyped, srcDisk, testDisk, pending, late, saved, cvars >>

\* loadTests(); fresh: every input and expected text was empty at the call.
LoadTests ==
  /\ input' = LoadTestsInput(input, openFile, shouldSaveTests, testDisk)
  /\ expected' = LoadTestsExpected(expected, openFile, shouldSaveTests, testDisk)
  /\ log' = LoadTestsLog(openFile, shouldSaveTests, testDisk)
  /\ delivered' = NoRun
  /\ call' = [op |-> "loadTests",
              fresh |-> (input = NoSlots /\ expected = NoSlots)]
  /\ ret' = "void"
  /\ UNCHANGED << openFile, isOpen, shouldSaveTests, templatePath, editor,
                  nTyped, output, verdict, srcDisk, testDisk, pending, late, saved,
                  cvars >>

\* saveTests()
SaveTests ==
  /\ testDisk' = SaveTestsDisk(testDisk, input, expected, openFile,
                               shouldSaveTests)
  /\ saved' = SaveTestsSnapshot(saved, input, expected, openFile,
                                shouldSaveTests)
  /\ log' = SaveTestsLog(input, expected, openFile, shouldSaveTests)
  /\ call' = [op |-> "saveTests"]
  /\ ret' = "void"
  /\ UNCHANGED << openFile, isOpen, shouldSaveTests, templatePath, editor,
                  nTyped, input, expected, output, verdict, srcDisk, pending, late,
                  delivered, cvars >>

\* A companion payload: the test cases of data.testcases.
Testcase(i, o) == [input |-> i, output |-> o]
Companions ==
  { << >>,
    << Testcase(<< "a" >>, << "a", "LF" >>), Testcase(<< "a" >>, << "b" >>),
       Testcase(<< "a" >>, Empty) >>,
    << Testcase(<< "SP" >>, << "a" >>),
       Testcase(<< "a", "NUL", "b" >>, << "a", "NUL", "b" >>) >>,
    << Testcase(<< "b" >>, << "b" >>), Testcase(<< "b" >>, << "b" >>),
       Testcase(<< "b" >>, << "b" >>), Testcase(<< "b" >>, << "b" >>) >> }

\* The comment applyCompanion puts before the text: data.toMetaString() with
\* each line commented out, then "\n\n".
MetaComment == << "LF", "b", "LF", "LF" >>

\* applyCompanion(data)
ApplyCompanion(data) ==
  /\ editor' = IF openFile = NoFile /\ ~IsTextChanged
               THEN MetaComment \o editor
               ELSE editor
  /\ input' = [i \in Slots |->
                 IF i < Len(data) THEN data[i + 1].input ELSE Empty]
  /\ expected' = [i \in Slots |->
                    IF i < Len(data) THEN data[i + 1].output ELSE Empty]
  /\ output' = NoSlots
  /\ verdict' = AllUnknown
  /\ delivered' = NoRun
  /\ log' = IF Len(data) > NumSlots
            THEN { << "warn", "CP Editor", "More than 3 testcase" >> }
            ELSE {}
  /\ call' = [op |-> "applyCompanion"]
  /\ ret' = "void"
  /\ UNCHANGED << openFile, isOpen, shouldSaveTests, templatePath, nTyped,
                  srcDisk, testDisk, pending, late, saved, cvars >>

\* save(): saveFile(true, "Save")
Save(fn) ==
  /\ DialogAnswer(openFile, TRUE, fn)
  /\ SaveFileStep(TRUE, fn)
  /\ call' = [op |-> "save",
              saveFile |-> BoolStr(SaveFileRet(openFile, TRUE, fn))]
  /\ ret' = "void"
  /\ UNCHANGED << shouldSaveTests, templatePath, editor, nTyped, input,
                  expected, output, verdict, pending, late, delivered, cvars >>

\* saveAs(): the old file is closed and set aside, saveFile(true, "Save as")
\* runs on a window without file; when it returns false the old file is put
\* back and opened again.
SaveAs(fn) ==
  /\ fn \in DialogNames
  /\ openFile' = IF SaveFileRet(NoFile, TRUE, fn)
                 THEN SaveFileFile(NoFile, TRUE, fn)
                 ELSE openFile
  /\ isOpen' = IF SaveFileRet(NoFile, TRUE, fn)
               THEN SaveFileOpen(NoFile, FALSE, TRUE, fn)
               ELSE openFile # NoFile /\ Openable(openFile)
  /\ srcDisk' = SaveFileSrcDisk(NoFile, FALSE, TRUE, fn, editor, srcDisk)
  /\ testDisk' = SaveFileTestDisk(NoFile, TRUE, fn, testDisk, input, expected,
                                  shouldSaveTests)
  /\ saved' = SaveFileSnapshot(saved, NoFile, TRUE, fn, input, expected,
                               shouldSaveTests)
  /\ log' = SaveFileLog(NoFile, FALSE, TRUE, fn, input, expected,
                        shouldSaveTests)
  /\ call' = [op |-> "saveAs",
              saveFile |-> BoolStr(SaveFileRet(NoFile, TRUE, fn))]
  /\ ret' = "void"
  /\ UNCHANGED << shouldSaveTests, templatePath, editor, nTyped, input,
                  expected, output, verdict, pending, late, delivered, cvars >>

\* on_compile_clicked(): saveFile(false, "Compiler"), then the compiler.
OnCompileClicked ==
  /\ SaveFileStep(FALSE, "")
  /\ call' = [op |-> "on_compile_clicked",
              saveFile |-> BoolStr(SaveFileRet(openFile, FALSE, ""))]
  /\ ret' = "void"
  /\ UNCHANGED << shouldSaveTests, templatePath, editor, nTyped, input,
                  expected, output, verdict, pending, late, delivered, cvars >>

\* The callbacks earlier runs still owe once a run is started while the last
\* one is in flight (owed: the slots of the last run without callback yet).
\* Starting a run cancels nothing: only an explicit kill does, and the
\* handlers above never ask for it.
LateAfter(l, owed) == l \cup owed

\* The body on_run_clicked and on_runOnly_clicked share: clearTests(true),
\* saveFile(false, "Compiler"), the outputs cleared, the runner started on
\* the slots whose input is not empty.
RunStart(name) ==
  /\ SaveFileStep(FALSE, "")
  /\ output' = NoSlots
  /\ verdict' = AllUnknown
  /\ pending' = IsRun(input)
  /\ late' = LateAfter(late, pending)
  /\ delivered' = NoneDelivered
  /\ call' = [op |-> name,
              saveFile |-> BoolStr(SaveFileRet(openFile, FALSE, ""))]
  /\ ret' = "void"
  /\ UNCHANGED << shouldSaveTests, templatePath, editor, nTyped, input,
                  expected, cvars >>

OnRunClicked == RunStart("on_run_clicked")

OnRunOnlyClicked == RunStart("on_runOnly_clicked")

\* The Stdout a run can capture.
Outs == { Empty, << "a" >>, << "b" >> }

\* executionFinished(id, msec, Stdout), emitted by the runner once for a slot
\* it was started on, in any order (msec is only reported).
ExecutionFinished(id, out) ==
  /\ id \in pending
  /\ pending' = pending \ {id}
  /\ late' = late
  /\ output' = OutputAfter(output, id, out)
  /\ verdict' = [verdict EXCEPT ![id] = VerdictAfter(verdict[id], out, expected[id])]
  /\ delivered' = IF delivered = NoRun THEN NoRun
                  ELSE [delivered EXCEPT ![id] = out]
  /\ log' = { << "info", "Runner", id + 1 >> }
  /\ call' = [op |-> "executionFinished", id |-> id, out |-> out]
  /\ ret' = "void"
  /\ UNCHANGED << openFile, isOpen, shouldSaveTests, templatePath, editor,
                  nTyped, input, expected, srcDisk, testDisk, saved, cvars >>

\* executionFinished(id, msec, Stdout), emitted for a slot by a run that was
\* still in flight when a later run was started.  The slots no longer follow
\* the last run alone.
ExecutionFinishedLate(id, out) ==
  /\ id \in late
  /\ late' = late \ {id}
  /\ output' = OutputAfter(output, id, out)
  /\ verdict' = [verdict EXCEPT
                   ![id] = VerdictAfter(verdict[id], out, expected[id])]
  /\ delivered' = NoRun
  /\ log' = { << "info", "Runner", id + 1 >> }
  /\ call' = [op |-> "executionFinished", id |-> id, out |-> out]
  /\ ret' = "void"
  /\ UNCHANGED << openFile, isOpen, shouldSaveTests, templatePath, editor,
                  nTyped, input, expected, srcDisk, testDisk, pending, saved,
                  cvars >>

Buttons == {"Save", "Discard", "Cancel"}

\* closeChangedConfirm(): res is the button of the message box, shown only
\* when the text is changed; fn is the answer of saveFile's dialog.
CloseChangedConfirm(res, fn) ==
  LET changed == IsTextChanged
      saving == changed /\ res = "Save"
  IN  /\ res \in Buttons
      /\ ~changed => res = "Cancel"
      /\ IF saving THEN DialogAnswer(openFile, TRUE, fn) ELSE fn = ""
      /\ IF saving THEN SaveFileStep(TRUE, fn)
         ELSE /\ log' = {}
              /\ UNCHANGED << openFile, isOpen, srcDisk, testDisk, saved >>
      /\ ret' = BoolStr(CloseConfirmed(changed, res,
                                       SaveFileRet(openFile, TRUE, fn)))
      /\ call' = [op |-> "closeChangedConfirm", prompted |-> changed,
                  res |-> IF changed THEN res ELSE "none",
                  saveFile |-> IF saving
                               THEN BoolStr(SaveFileRet(openFile, TRUE, fn))
                               ELSE "none"]
      /\ UNCHANGED << shouldSaveTests, templatePath, editor, nTyped, input,
                      expected, output, verdict, pending, late, delivered, cvars >>

Next ==
  \/ \E b \in BOOLEAN : SetSaveTests(b)
  \/ \E s \in {"", TemplateFile} : SetTemplatePath(s)
  \/ TypeChar("a")
  \/ \E outputOnly \in BOOLEAN : ClearTests(outputOnly)
  \/ LoadTests
  \/ SaveTests
  \/ \E data \in Companions : ApplyCompanion(data)
  \/ \E fn \in DialogNames : Save(fn)
  \/ \E fn \in DialogNames : SaveAs(fn)
  \/ OnCompileClicked
  \/ OnRunClicked
  \/ OnRunOnlyClicked
  \/ \E id \in Slots, out \in Outs : ExecutionFinished(id, out)
  \/ \E id \in Slots, out \in Outs : ExecutionFinishedLate(id, out)
  \/ \E res \in Buttons, fn \in DialogNames : CloseChangedConfirm(res, fn)

\* The window under every handler.  Its state space is the product of the
\* groups of handlers below; the specifications that follow drive the
\* same window with one group each.
Spec == Init /\ [][Next]_vars

\* The window driven by the handlers that write what the test persistence
\* reads: the file association, the flag, the slots' texts, the test files.
NextTests ==
  \/ \E b \in BOOLEAN : SetSaveTests(b)
  \/ \E outputOnly \in BOOLEAN : ClearTests(outputOnly)
  \/ LoadTests
  \/ SaveTests
  \/ \E data \in Companions : ApplyCompanion(data)
  \/ \E fn \in DialogNames : Save(fn)
  \/ \E fn \in DialogNames : SaveAs(fn)
  \/ OnCompileClicked

SpecTests == Init /\ [][NextTests]_vars

\* The window driven by the handlers that write what isTextChanged reads:
\* the file association, the template, the editor's text, the source files.
NextDirty ==
  \/ \E s \in {"", TemplateFile} : SetTemplatePath(s)
  \/ TypeChar("a")
  \/ \E data \in Companions : ApplyCompanion(data)
  \/ \E fn \in DialogNames : Save(fn)
  \/ \E fn \in DialogNames : SaveAs(fn)
  \/ OnCompileClicked
  \/ \E res \in Buttons, fn \in DialogNames : CloseChangedConfirm(res, fn)

SpecDirty == Init /\ [][NextDirty]_vars

\* The window driven by the handlers that write the slots' outputs and
\* verdicts and what the callback reads, with a runner whose callbacks of an
\* earlier run never arrive once a run is started.
NextRun ==
  \/ \E outputOnly \in BOOLEAN : ClearTests(outputOnly)
  \/ \E data \in Companions : ApplyCompanion(data)
  \/ OnRunClicked
  \/ OnRunOnlyClicked
  \/ \E id \in Slots, out \in Outs : ExecutionFinished(id, out)

SpecRun == Init /\ [][NextRun]_vars

\* A window constructed with the test persistence off, beside no test file.
InitRuns ==
  /\ \E filePath \in DialogNames, sd \in InitSrcDisks :
       MainInitFor(filePath, sd, NoTestFiles, FALSE)
  /\ CmpIdle

\* That window with a runner that is started again while a run is in flight:
\* the callbacks of the earlier run arrive among those of the last.
NextRuns ==
  \/ \E outputOnly \in BOOLEAN : ClearTests(outputOnly)
  \/ \E data \in Companions : ApplyCompanion(data)
  \/ \E fn \in DialogNames : Save(fn)
  \/ OnRunClicked
  \/ OnRunOnlyClicked
  \/ \E id \in Slots, out \in Outs : ExecutionFinished(id, out)
  \/ \E id \in Slots, out \in Outs : ExecutionFinishedLate(id, out)

SpecRuns == InitRuns /\ [][NextRuns]_vars

\* ------------------------------------------------ the comparator on its own

CmpChar == {"a", "SP", "LF", "TAB", "CR"}
CmpTexts(n) == UNION { [1 .. k -> CmpChar] : k \in 0 .. n }

InitCmp ==
  /\ MainInitFor("", [f \in Paths |-> Missing], NoTestFiles, FALSE)
  /\ cmpA \in CmpTexts(MaxCmpA)
  /\ cmpB \in CmpTexts(MaxCmpB)
  /\ cmpRes = NoResult

\* isVerdictPass(cmpA, cmpB)
Compare ==
  /\ cmpRes.op = "none"
  /\ cmpRes' = [op |-> "compare", pass |-> IsVerdictPass(cmpA, cmpB),
                before |-> IsVerdictPass(cmpA, cmpB)]
  /\ UNCHANGED << cmpA, cmpB, mvars >>

\* isVerdictPass(cmpA, cmpA)
CompareSame ==
  /\ cmpRes.op = "none"
  /\ cmpB' = cmpA
  /\ cmpRes' = [op |-> "compare", pass |-> IsVerdictPass(cmpA, cmpA),
                before |-> IsVerdictPass(cmpA, cmpA)]
  /\ UNCHANGED << cmpA, mvars >>

\* A line that is empty or holds only whitespace.
BlankLines == { Empty, << "SP" >>, << "TAB" >> }

\* After a comparison, a blank line is appended to one of the two texts and
\* they are compared again.
AppendBlankLine(side, w) ==
  /\ cmpRes.op = "compare"
  /\ cmpA' = IF side = "output" THEN cmpA \o << "LF" >> \o w ELSE cmpA
  /\ cmpB' = IF side = "expected" THEN cmpB \o << "LF" >> \o w ELSE cmpB
  /\ cmpRes' = [op |-> "recompare", pass |-> IsVerdictPass(cmpA', cmpB'),
                before |-> cmpRes.pass]
  /\ UNCHANGED mvars

NextCmp == Compare \/ CompareSame

SpecCmp == InitCmp /\ [][NextCmp]_vars

NextCmpBlank ==
  \/ Compare
  \/ \E side \in {"output", "expected"}, w \in BlankLines :
       AppendBlankLine(side, w)

SpecCmpBlank == InitCmp /\ [][NextCmpBlank]_vars

\* ------------------------------------------------------------------ claims

\* The test file of slot i with extension e, beside the open file.
OpenTestFile(i, e) == TestFileName(openFile, i, e)

\* C1: loadTests() or saveTests() called while the document has no backing
\* file, or while the persistence flag is off, does nothing: it reports no
\* read and no write of a test file, leaves every test file as it is and
\* leaves the input and expected output of all three slots unchanged.
C1_SkippedIsNoOp ==
  [][ (call'.op \in {"loadTests", "saveTests"}
       /\ (openFile = NoFile \/ ~shouldSaveTests))
      => (log' = {} /\ UNCHANGED << testDisk, input, expected >>) ]_vars

\* loadTests was called with the flag off on a window whose file has a
\* readable test file holding something else than its slot.
C1_Witness ==
  /\ call.op = "loadTests"
  /\ openFile # NoFile
  /\ ~shouldSaveTests
  /\ \E i \in Slots :
       /\ FileExists(OpenTestFile(i, "in"), testDisk)
       /\ CanRead(OpenTestFile(i, "in"))
       /\ testDisk[OpenTestFile(i, "in")] # input[i]

\* C2: with a backing file and persistence enabled, and every read and write
\* succeeding, saveTests() followed by loadTests() into all-empty slots gives
\* back, for every slot and for each of input and expected output that was
\* not empty after trimming when saved, exactly the text that was saved.
C2_RoundTrip ==
  ( /\ call.op = "loadTests"
    /\ call.fresh
    /\ openFile # NoFile
    /\ shouldSaveTests
    /\ saved # NeverSaved
    /\ saved[3] = openFile
    /\ Openable(openFile) )
  => \A i \in Slots :
       /\ ~IsEmpty(Trimmed(saved[1][i])) => input[i] = saved[1][i]
       /\ ~IsEmpty(Trimmed(saved[2][i])) => expected[i] = saved[2][i]

\* C3, as claimed: an input or expected output that is empty is left empty
\* by saveTests() and by loadTests(), whatever test files are on disk.
C3_EmptyUnaffected ==
  [][ call'.op \in {"loadTests", "saveTests"}
      => \A i \in Slots :
           /\ input[i] = Empty => input'[i] = Empty
           /\ expected[i] = Empty => expected'[i] = Empty ]_vars

\* loadTests reads the file of slot i with extension e.
C3_Reads(i, e) ==
  /\ openFile # NoFile
  /\ shouldSaveTests
  /\ FileExists(OpenTestFile(i, e), testDisk)
  /\ CanRead(OpenTestFile(i, e))

\* C3, amended: saveTests() changes no input and no expected output, and
\* leaves the test file of a text that is empty after trimming as it is;
\* loadTests() leaves a text (an empty one too) unchanged when its test file
\* does not exist or cannot be opened, and replaces it (an empty one too)
\* with the file's contents when the file exists and can be read.
C3_EmptyUnaffectedAmended ==
  [][ /\ call'.op = "saveTests"
         => /\ UNCHANGED << input, expected >>
            /\ \A i \in Slots :
                 /\ (openFile # NoFile /\ IsEmpty(Trimmed(input[i]))
                     /\ OpenTestFile(i, "in") \in DOMAIN testDisk)
                    => testDisk'[OpenTestFile(i, "in")]
                         = testDisk[OpenTestFile(i, "in")]
                 /\ (openFile # NoFile /\ IsEmpty(Trimmed(expected[i]))
                     /\ OpenTestFile(i, "ans") \in DOMAIN testDisk)
                    => testDisk'[OpenTestFile(i, "ans")]
                         = testDisk[OpenTestFile(i, "ans")]
      /\ call'.op = "loadTests"
         => \A i \in Slots :
              /\ input'[i] = IF C3_Reads(i, "in")
                             THEN testDisk[OpenTestFile(i, "in")]
                             ELSE input[i]
              /\ expected'[i] = IF C3_Reads(i, "ans")
                                THEN testDisk[OpenTestFile(i, "ans")]
                                ELSE expected[i] ]_vars

\* loadTests was called on all-empty slots and found a file for slot 1 but
\* none for slot 2: one empty slot was filled, the other stayed empty.
C3_Witness ==
  /\ call.op = "loadTests"
  /\ call.fresh
  /\ input[0] # Empty
  /\ input[1] = Empty
  /\ ~FileExists(OpenTestFile(1, "in"), testDisk)

\* The last handler called saveFile, and saveFile returned true.
SaveFileSucceeded == "saveFile" \in DOMAIN call /\ call.saveFile = "true"

\* C4: isTextChanged() is false right after a saveFile that returned true,
\* and true once a character has then been appended to the buffer.
C4_CleanAfterSave ==
  /\ SaveFileSucceeded => ~IsTextChanged
  /\ (call.op = "type" /\ call.afterSave) => IsTextChanged

\* What closeChangedConfirm must leave alone when it does not save.
C5_Kept == << srcDisk, testDisk, editor, input, expected, openFile, isOpen >>

\* C5: closeChangedConfirm() returns true without prompting and without
\* writing when the text is unchanged; when it is changed, Save returns the
\* result of saveFile, Discard returns true and Cancel returns false, and
\* Discard and Cancel write no file and leave the buffer, the slots and the
\* backing file as they are.
C5_ConfirmProtocol ==
  [][ call'.op = "closeChangedConfirm"
      => /\ call'.prompted = IsTextChanged
         /\ ~IsTextChanged
            => (ret' = "true" /\ log' = {} /\ UNCHANGED C5_Kept)
         /\ (IsTextChanged /\ call'.res = "Save")
            => (ret' = call'.saveFile
                /\ ret' = BoolStr(openFile # NoFile \/ openFile' # NoFile))
         /\ (IsTextChanged /\ call'.res = "Discard")
            => (ret' = "true" /\ log' = {} /\ UNCHANGED C5_Kept)
         /\ (IsTextChanged /\ call'.res = "Cancel")
            => (ret' = "false" /\ log' = {} /\ UNCHANGED C5_Kept) ]_vars

\* The text was changed, the user chose Save and dismissed the file dialog:
\* closeChangedConfirm returned false, the result of saveFile.
C5_Witness ==
  /\ call.op = "closeChangedConfirm"
  /\ call.prompted
  /\ call.res = "Save"
  /\ call.saveFile = "false"
  /\ ret = "false"
  /\ IsTextChanged

\* C10: whenever closeChangedConfirm() returns true after the user chose
\* Save, the buffer is persisted: the document has an open backing file
\* whose contents on disk equal the buffer, and isTextChanged() is false.
C10_SavedWhenConfirmed ==
  ( call.op = "closeChangedConfirm" /\ call.res = "Save" /\ ret = "true" )
  => /\ openFile # NoFile
     /\ isOpen
     /\ srcDisk[openFile] = editor
     /\ ~IsTextChanged

\* The verdict the callback must leave for Stdout out and expected text exp.
VerdictRule(out, exp) ==
  IF ~IsEmpty(out) /\ ~IsEmpty(exp)
  THEN IF IsVerdictPass(out, exp) THEN "ACCEPTED" ELSE "WRONG_ANSWER"
  ELSE "UNKNOWN"

\* C6: after a run start, executionFinished(id, msec, out) sets the output of
\* slot id to out and leaves its verdict ACCEPTED when out and the expected
\* output are both non-empty and isVerdictPass holds, WRONG_ANSWER when both
\* are non-empty and it does not, and UNKNOWN when either is empty.
C6_VerdictRule ==
  call.op = "executionFinished"
  => /\ output[call.id] = call.out
     /\ verdict[call.id] = VerdictRule(call.out, expected[call.id])

\* A callback brought "a" for the expected "a\n": ACCEPTED, by the
\* comparator and not by equality.
C6_Witness ==
  /\ call.op = "executionFinished"
  /\ call.out = << "a" >>
  /\ expected[call.id] = << "a", "LF" >>
  /\ verdict[call.id] = "ACCEPTED"

\* C7, the state of the slots during a run that only callbacks have touched:
\* it is a function of the callbacks that have arrived, not of their order.
C7_SlotsFollowCallbacks ==
  delivered # NoRun
  => \A i \in Slots :
       IF delivered[i] = NotYet
       THEN output[i] = Empty /\ verdict[i] = "UNKNOWN"
       ELSE /\ output[i] = delivered[i]
            /\ verdict[i] = VerdictRule(delivered[i], expected[i])

\* C7: within one run, for any subset of the slots receiving one callback
\* each and for every order of arrival, the outputs and verdicts of all
\* three slots end the same; a callback for slot i changes only the output
\* and verdict of slot i, never another slot's input, expected output,
\* output or verdict; a slot without callback keeps an empty output and the
\* verdict UNKNOWN.
C7_OrderIndependent ==
  /\ [] C7_SlotsFollowCallbacks
  /\ [][ call'.op = "executionFinished"
         => /\ UNCHANGED << input, expected >>
            /\ \A j \in Slots \ {call'.id} :
                 output'[j] = output[j] /\ verdict'[j] = verdict[j] ]_vars

\* All three slots were run, the callbacks of slots 2 and 1 have arrived
\* (the last one for slot 1), slot 0 still waits, and the slots differ.
C7_Witness ==
  /\ delivered # NoRun
  /\ call.op = "executionFinished"
  /\ call.id = 1
  /\ pending = {0}
  /\ delivered[0] = NotYet
  /\ verdict[1] = "WRONG_ANSWER"
  /\ output[2] = << "b" >>
  /\ verdict[2] = "UNKNOWN"

\* C8: isVerdictPass(T, T) is true for every text T.
C8_Reflexive ==
  (cmpRes.op = "compare" /\ cmpA = cmpB) => cmpRes.pass

\* A text of spaces, tabs, carriage returns and newlines was compared with
\* itself.
C8_Witness ==
  /\ cmpRes.op = "compare"
  /\ cmpA = << "CR", "LF", "TAB" >>
  /\ cmpB = cmpA
  /\ cmpRes.pass

\* C9: appending a trailing blank line (empty, or whitespace only) to either
\* text does not change the value of isVerdictPass.
C9_BlankLineInsensitive ==
  cmpRes.op = "recompare" => cmpRes.pass = cmpRes.before

\* The verdict slot i shows is a judgment (ACCEPTED or WRONG_ANSWER) of the
\* output and the expected output the slot holds.
VerdictTruthful(i) ==
  verdict[i] \in {"ACCEPTED", "WRONG_ANSWER"}
  => /\ ~IsEmpty(output[i])
     /\ ~IsEmpty(expected[i])
     /\ (verdict[i] = "ACCEPTED") = IsVerdictPass(output[i], expected[i])

\* The handlers that reset the slots.
Resetting == {"on_run_clicked", "on_runOnly_clicked", "clearTests",
              "applyCompanion"}

\* C11: under any sequence of run starts, executionFinished callbacks (at
\* most one per slot per run, each after its run's start), clearTests,
\* applyCompanion and saveFile, a slot showing ACCEPTED or WRONG_ANSWER has a
\* non-empty output and a non-empty expected output, and shows ACCEPTED
\* exactly when isVerdictPass(output, expected) is true; every run start,
\* clearTests and applyCompanion leaves all three verdicts UNKNOWN and all
\* three outputs empty.
C11_VerdictsTruthful ==
  /\ \A i \in Slots : VerdictTruthful(i)
  /\ call.op \in Resetting => (verdict = AllUnknown /\ output = NoSlots)

====
